---- MODULE Spec2Model ----
(***************************************************************************)
(* InfiniteTalk API: the admission-controlled job queue.                   *)
(*                                                                         *)
(* src/api/queue_manager.py  class QueueManager: every method runs under   *)
(*                           self._lock, so every method is one atomic     *)
(*                           step; it is modelled as an operator from the  *)
(*                           manager's state to [s |-> new state,          *)
(*                           out |-> returned value or raised exception].  *)
(* src/api/app.py            the asyncio handlers that call it.  A handler *)
(*                           runs without interruption between two await  *)
(*                           expressions; each such segment is one action. *)
(*                                                                         *)
(* Job records are Python dicts shared by reference between _queue,        *)
(* _processing, _completed and _all_requests; rec[i] is the one dict       *)
(* object created for request id i.                                        *)
(***************************************************************************)
EXTENDS Integers, Sequences, FiniteSets, TLC

\* ------------------------------------------------------------- bounds
\* QueueManager(max_queue_size, max_concurrent): the constructor's arguments.
max_queue_size == 2
max_concurrent == 1
\* Number of request ids (uuid4 values) ever issued in a run.
MaxJobs == 3
\* time.time() ranges over 1..MaxTime.
MaxTime == 2
\* Number of direct calls of QueueManager methods in a run of SpecQM.
MaxCalls == 8
\* app.py 35: queue_manager = QueueManager(max_queue_size=20, max_concurrent=3);
\* the queue lengths on which the wait estimate is evaluated.
WaitQueueSize == 20

Ids == 1..MaxJobs
\* An id no submission ever produced (a caller may still name it).
UnknownId == MaxJobs + 1
AnyId == Ids \cup {UnknownId}

Statuses == {"queued", "processing", "completed", "failed"}
\* The message texts of app.py (process_video).
MsgInit == "Initializing models..."
MsgFailed == "Video generation failed"
MsgError == "Error"
ResultUrl == "/api/result"

\* ------------------------------------------------------------ helpers
SeqToSet(q) == {q[k] : k \in 1..Len(q)}

RECURSIVE Without(_, _)
\* [req for req in q if req["request_id"] != id]
Without(q, id) ==
    IF q = <<>> THEN <<>>
    ELSE IF Head(q) = id THEN Without(Tail(q), id)
         ELSE <<Head(q)>> \o Without(Tail(q), id)

\* d[id] = item on an insertion-ordered dict, kept as the sequence of its keys
DictSet(d, id) == IF id \in SeqToSet(d) THEN d ELSE Append(d, id)

\* A request id for which no dict has been created yet.
NoRec == [status |-> "none", message |-> "", result_url |-> "absent",
          error |-> "absent", completed_at |-> 0, failed_at |-> 0]

\* The dict generate_video builds (app.py 126-133) after add_to_queue stamped it.
NewRec == [status |-> "queued", message |-> "", result_url |-> "absent",
           error |-> "absent", completed_at |-> 0, failed_at |-> 0]

\* ------------------------------------------------ QueueManager.__init__
QM0 == [queue |-> <<>>, queueIsList |-> FALSE,
        processing |-> {},
        completed |-> <<>>,
        all_requests |-> {}, allIsList |-> FALSE,
        rec |-> [i \in Ids |-> NoRec]]

\* request_id in self._all_requests  (on the list [] it is always False)
InAll(s, id) == (~s.allIsList) /\ id \in s.all_requests

\* add_to_queue with ">" for ">=" in the capacity test.
add_to_queue_OffByOne(s, id) ==
    IF Len(s.queue) > max_queue_size
    THEN [s |-> s, out |-> "False"]
    ELSE LET s1 == [s EXCEPT !.rec[id] = NewRec, !.queue = Append(s.queue, id)]
         IN  IF s.allIsList
             THEN [s |-> s1, out |-> "TypeError"]
             ELSE [s |-> [s1 EXCEPT !.all_requests = s.all_requests \cup {id}],
                   out |-> "True"]

\* add_to_queue with appendleft for append.
add_to_queue_Prepend(s, id) ==
    IF Len(s.queue) >= max_queue_size
    THEN [s |-> s, out |-> "False"]
    ELSE LET s1 == [s EXCEPT !.rec[id] = NewRec, !.queue = <<id>> \o s.queue]
         IN  IF s.allIsList
             THEN [s |-> s1, out |-> "TypeError"]
             ELSE [s |-> [s1 EXCEPT !.all_requests = s.all_requests \cup {id}],
                   out |-> "True"]

\* QueueManager.add_to_queue; the append (41) precedes the registry store (42),
\* which raises TypeError once _all_requests has been rebound to a list.
add_to_queue(s, id) ==
    IF Len(s.queue) >= max_queue_size
    THEN [s |-> s, out |-> "False"]
    ELSE LET s1 == [s EXCEPT !.rec[id] = NewRec, !.queue = Append(s.queue, id)]
         IN  IF s.allIsList
             THEN [s |-> s1, out |-> "TypeError"]
             ELSE [s |-> [s1 EXCEPT !.all_requests = s.all_requests \cup {id}],
                   out |-> "True"]

\* get_next_item with a read of the head, _queue[0], for popleft.
get_next_item_Peek(s) ==
    IF s.queue # <<>>
    THEN [s |-> s, out |-> "item", item |-> Head(s.queue)]
    ELSE [s |-> s, out |-> "None", item |-> UnknownId]

\* get_next_item with pop (the newest entry) for popleft.
get_next_item_PopRight(s) ==
    IF s.queue # <<>>
    THEN IF s.queueIsList
         THEN [s |-> s, out |-> "AttributeError", item |-> UnknownId]
         ELSE [s |-> [s EXCEPT !.queue = SubSeq(s.queue, 1, Len(s.queue) - 1)],
               out |-> "item", item |-> s.queue[Len(s.queue)]]
    ELSE [s |-> s, out |-> "None", item |-> UnknownId]

\* QueueManager.get_next_item; out is the popped id, "None", or AttributeError
\* (a list has no popleft) once _queue has been rebound to a list.
get_next_item(s) ==
    IF s.queue # <<>>
    THEN IF s.queueIsList
         THEN [s |-> s, out |-> "AttributeError", item |-> UnknownId]
         ELSE [s |-> [s EXCEPT !.queue = Tail(s.queue)], out |-> "item",
               item |-> Head(s.queue)]
    ELSE [s |-> s, out |-> "None", item |-> UnknownId]

\* start_processing without the max_concurrent test.
start_processing_NoLimit(s, id) ==
    IF InAll(s, id)
    THEN [s |-> [s EXCEPT !.rec[id].status = "processing",
                          !.processing = s.processing \cup {id}],
          out |-> "True"]
    ELSE [s |-> s, out |-> "False"]

\* QueueManager.start_processing
start_processing(s, id) ==
    IF Cardinality(s.processing) >= max_concurrent
    THEN [s |-> s, out |-> "False"]
    ELSE IF InAll(s, id)
         THEN [s |-> [s EXCEPT !.rec[id].status = "processing",
                               !.processing = s.processing \cup {id}],
               out |-> "True"]
         ELSE [s |-> s, out |-> "False"]

\* The tail of complete_request / fail_request: self._all_requests[id] = item
StoreAll(s, id) ==
    IF s.allIsList
    THEN [s |-> s, out |-> "TypeError"]
    ELSE [s |-> [s EXCEPT !.all_requests = s.all_requests \cup {id}],
          out |-> "None"]

\* complete_request that leaves the entry in _processing.
complete_request_KeepsSlot(s, id, result_url, t) ==
    IF id \in s.processing
    THEN StoreAll([s EXCEPT !.rec[id].status = "completed",
                            !.rec[id].completed_at = t,
                            !.rec[id].result_url = result_url,
                            !.completed = DictSet(s.completed, id)], id)
    ELSE [s |-> s, out |-> "None"]

\* QueueManager.complete_request
complete_request(s, id, result_url, t) ==
    IF id \in s.processing
    THEN StoreAll([s EXCEPT !.processing = s.processing \ {id},
                            !.rec[id].status = "completed",
                            !.rec[id].completed_at = t,
                            !.rec[id].result_url = result_url,
                            !.completed = DictSet(s.completed, id)], id)
    ELSE [s |-> s, out |-> "None"]

\* fail_request that stores the message under "result_url", not "error".
fail_request_SetsResult(s, id, error_message, t) ==
    IF id \in s.processing
    THEN StoreAll([s EXCEPT !.processing = s.processing \ {id},
                            !.rec[id].status = "failed",
                            !.rec[id].result_url = error_message,
                            !.rec[id].failed_at = t,
                            !.completed = DictSet(s.completed, id)], id)
    ELSE [s |-> s, out |-> "None"]

\* fail_request without the test "request_id in self._processing": it looks
\* the record up in the registry.
fail_request_Unguarded(s, id, error_message, t) ==
    IF InAll(s, id)
    THEN StoreAll([s EXCEPT !.processing = s.processing \ {id},
                            !.rec[id].status = "failed",
                            !.rec[id].error = error_message,
                            !.rec[id].failed_at = t,
                            !.completed = DictSet(s.completed, id)], id)
    ELSE [s |-> s, out |-> "None"]

\* QueueManager.fail_request
fail_request(s, id, error_message, t) ==
    IF id \in s.processing
    THEN StoreAll([s EXCEPT !.processing = s.processing \ {id},
                            !.rec[id].status = "failed",
                            !.rec[id].error = error_message,
                            !.rec[id].failed_at = t,
                            !.completed = DictSet(s.completed, id)], id)
    ELSE [s |-> s, out |-> "None"]

\* QueueManager.update_request_status; _processing[id] is the same dict object,
\* so lines 102-105 repeat the stores of lines 97-99.
update_request_status(s, id, status, message) ==
    IF InAll(s, id)
    THEN [s |-> [s EXCEPT !.rec[id].status = status,
                          !.rec[id].message = message],
          out |-> "None"]
    ELSE [s |-> s, out |-> "None"]

\* QueueManager.get_request_status: self._all_requests.get(id)
get_request_status(s, id) ==
    IF s.allIsList THEN "AttributeError"
    ELSE IF id \in s.all_requests THEN s.rec[id].status ELSE "None"

\* QueueManager.get_queue_size
get_queue_size(s) == Len(s.queue)

\* QueueManager.get_processing_count
get_processing_count(s) == Cardinality(s.processing)

\* can_start_processing with "<=" for "<" in the test of the free slot.
can_start_processing_OffByOne(s) ==
    Cardinality(s.processing) <= max_concurrent /\ Len(s.queue) > 0

\* can_start_processing without the test of the free slot.
can_start_processing_QueueOnly(s) == Len(s.queue) > 0

\* QueueManager.can_start_processing
can_start_processing(s) ==
    Cardinality(s.processing) < max_concurrent /\ Len(s.queue) > 0

\* get_queue_position returning enumerate's index i for i + 1.
get_queue_position_ZeroBased(s, id) ==
    IF \E k \in 1..Len(s.queue) : s.queue[k] = id
    THEN (CHOOSE k \in 1..Len(s.queue) :
             s.queue[k] = id /\ \A m \in 1..(k - 1) : s.queue[m] # id) - 1
    ELSE 0

\* QueueManager.get_queue_position: 1-based index, 0 for None
get_queue_position(s, id) ==
    IF \E k \in 1..Len(s.queue) : s.queue[k] = id
    THEN CHOOSE k \in 1..Len(s.queue) :
            s.queue[k] = id /\ \A m \in 1..(k - 1) : s.queue[m] # id
    ELSE 0

\* completed_at = item.get("completed_at") or item.get("failed_at", 0)
FinishedAt(r) == IF r.completed_at # 0 THEN r.completed_at ELSE r.failed_at

\* QueueManager.cleanup_old_requests; times are counted in hours.  On the list
\* form of _all_requests, list.pop(id, None) raises TypeError after the first
\* entry has been popped from _completed.
cleanup_old_requests(s, max_age_hours, t) ==
    LET cutoff == t - max_age_hours
        old(id) == FinishedAt(s.rec[id]) < cutoff
        to_remove == {id \in SeqToSet(s.completed) : old(id)}
        first == CHOOSE k \in 1..Len(s.completed) :
                    old(s.completed[k]) /\ \A m \in 1..(k - 1) : ~old(s.completed[m])
        keep == SelectSeq(s.completed, LAMBDA id : ~old(id))
    IN  IF to_remove = {} THEN [s |-> s, out |-> "None"]
        ELSE IF s.allIsList
             THEN [s |-> [s EXCEPT !.completed = Without(s.completed, s.completed[first])],
                   out |-> "TypeError"]
             ELSE [s |-> [s EXCEPT !.completed = keep,
                                   !.all_requests = s.all_requests \ to_remove],
                   out |-> "None"]

\* QueueManager.remove_request.  Line 210 rebinds _queue to a list.  Line 223
\* iterates the KEYS of the dict _all_requests and subscripts each key with
\* "request_id": TypeError unless the dict is empty, in which case
\* _all_requests is rebound to the list [].
remove_request(s, id) ==
    LET removed == id \in s.processing \/ id \in SeqToSet(s.completed)
        s1 == [s EXCEPT !.queue = Without(s.queue, id),
                        !.queueIsList = TRUE,
                        !.processing = s.processing \ {id},
                        !.completed = Without(s.completed, id)]
    IN  IF (~s.allIsList) /\ s.all_requests # {}
        THEN [s |-> s1, out |-> "TypeError"]
        ELSE [s |-> [s1 EXCEPT !.allIsList = TRUE, !.all_requests = {}],
              out |-> IF removed THEN "True" ELSE "False"]


\* process_queue with "if" for "while": at most one promotion per pass.
process_queue_Once(s) ==
    IF can_start_processing(s)
    THEN LET g == get_next_item(s)
         IN  IF g.out = "AttributeError"
             THEN [s |-> s, out |-> "AttributeError"]
             ELSE [s |-> start_processing(g.s, g.item).s, out |-> "None"]
    ELSE [s |-> s, out |-> "None"]

RECURSIVE process_queue(_)
\* app.process_queue run from its first while test to its end with nothing
\* else scheduled in between: the manager's state it leaves, and the
\* exception that ended it, if any.  The broadcasts and create_task between
\* two iterations do not touch the manager.
process_queue(s) ==
    IF can_start_processing(s)
    THEN LET g == get_next_item(s)
         IN  IF g.out = "AttributeError"
             THEN [s |-> s, out |-> "AttributeError"]
             ELSE process_queue(start_processing(g.s, g.item).s)
    ELSE [s |-> s, out |-> "None"]

\* avg_processing_time = 3.5 * 60, in seconds (line 173).
avg_processing_time == (35 * 60) \div 10

\* An answer of get_estimated_wait_time: None, f"{n} seconds", f"{n} minutes"
\* or f"{n}h {m}m", kept as the format used and the numbers printed.
WaitNone == [unit |-> "None", n |-> 0, m |-> 0]
WaitStr(unit, n, m) == [unit |-> unit, n |-> n, m |-> m]

\* get_estimated_wait_time with the minutes of the last bucket taken from the
\* whole estimate, not from its remainder modulo 3600.
get_estimated_wait_time_NoMod(s, id) ==
    LET position == get_queue_position(s, id)
        estimated_seconds == position * avg_processing_time
    IN  IF position = 0 THEN WaitNone
        ELSE IF estimated_seconds < 60
             THEN WaitStr("seconds", estimated_seconds, 0)
        ELSE IF estimated_seconds < 3600
             THEN WaitStr("minutes", estimated_seconds \div 60, 0)
        ELSE WaitStr("h m", estimated_seconds \div 3600, estimated_seconds \div 60)

\* QueueManager.get_estimated_wait_time; int() of a non-negative float is its
\* floor, and the products and quotients here are exact.
get_estimated_wait_time(s, id) ==
    LET position == get_queue_position(s, id)
        estimated_seconds == position * avg_processing_time
    IN  IF position = 0 THEN WaitNone
        ELSE IF estimated_seconds < 60
             THEN WaitStr("seconds", estimated_seconds, 0)
        ELSE IF estimated_seconds < 3600
             THEN WaitStr("minutes", estimated_seconds \div 60, 0)
        ELSE WaitStr("h m", estimated_seconds \div 3600,
                     (estimated_seconds % 3600) \div 60)

\* No get_estimated_wait_time call has been made.
NoWait == [id |-> 0, out |-> WaitNone]

\* QueueManager.get_queue_stats: the five counts (len of the list [] is 0).
get_queue_stats(s) ==
    [total_requests |-> Cardinality(s.all_requests),
     queued |-> Len(s.queue),
     processing |-> Cardinality(s.processing),
     completed |-> Cardinality({i \in SeqToSet(s.completed) :
                                   s.rec[i].status = "completed"}),
     failed |-> Cardinality({i \in SeqToSet(s.completed) :
                                s.rec[i].status = "failed"})]

\* ============================================================== state
VARIABLES
    qm,        \* the QueueManager instance (app.py 35)
    now,       \* time.time(), in hours
    nextId,    \* the next fresh uuid4 (app.py 111)
    sub,       \* generate_video coroutines: where each one stands
    pqReady,   \* process_queue coroutines about to evaluate the while test
    starting,  \* ids held by a process_queue coroutine inside its broadcasts
    video,     \* process_video tasks: where each one stands
    calls,     \* direct calls of QueueManager methods made so far (SpecQM)
    wait       \* the last get_estimated_wait_time call: its argument and answer

vars == <<qm, now, nextId, sub, pqReady, starting, video, calls, wait>>
appVars == <<sub, pqReady, starting, video>>

Issued == 1..(nextId - 1)

Init ==
    /\ qm = QM0
    /\ now = 1
    /\ nextId = 1
    /\ sub = [i \in Ids |-> "none"]
    /\ pqReady = 0
    /\ starting = {}
    /\ video = [i \in Ids |-> "none"]
    /\ calls = 0
    /\ wait = NoWait

\* ------------------------------------- the QueueManager called directly
\* Any thread may call any public method with any argument.
Called == calls < MaxCalls /\ calls' = calls + 1

QAdd ==
    /\ Called
    /\ nextId <= MaxJobs
    /\ qm' = add_to_queue(qm, nextId).s
    /\ nextId' = IF add_to_queue(qm, nextId).out = "False" THEN nextId ELSE nextId + 1
    /\ UNCHANGED <<wait, now, appVars>>

QGetNext ==
    /\ Called
    /\ qm' = get_next_item(qm).s
    /\ UNCHANGED <<wait, now, nextId, appVars>>

QStart ==
    /\ Called
    /\ \E id \in Issued \cup {UnknownId} :
          qm' = start_processing(qm, id).s
    /\ UNCHANGED <<wait, now, nextId, appVars>>

QComplete ==
    /\ Called
    /\ \E id \in Issued \cup {UnknownId}, url \in {ResultUrl, "None"} :
          qm' = complete_request(qm, id, url, now).s
    /\ UNCHANGED <<wait, now, nextId, appVars>>

QFail ==
    /\ Called
    /\ \E id \in Issued \cup {UnknownId} :
          qm' = fail_request(qm, id, MsgFailed, now).s
    /\ UNCHANGED <<wait, now, nextId, appVars>>

QUpdate ==
    /\ Called
    /\ \E id \in Issued \cup {UnknownId}, st \in Statuses :
          qm' = update_request_status(qm, id, st, MsgInit).s
    /\ UNCHANGED <<wait, now, nextId, appVars>>

QRemove ==
    /\ Called
    /\ \E id \in Issued \cup {UnknownId} :
          qm' = remove_request(qm, id).s
    /\ UNCHANGED <<wait, now, nextId, appVars>>

QCleanup ==
    /\ Called
    /\ \E age \in 0..1 :
          qm' = cleanup_old_requests(qm, age, now).s
    /\ UNCHANGED <<wait, now, nextId, appVars>>

\* time.time() advances between calls
Tick ==
    /\ now < MaxTime
    /\ now' = now + 1
    /\ UNCHANGED <<wait, qm, nextId, appVars, calls>>

Call ==
    \/ QAdd
    \/ QGetNext
    \/ QStart
    \/ QComplete
    \/ QFail
    \/ QUpdate
    \/ QRemove
    \/ QCleanup

NextQM ==
    \/ Call
    \/ Tick

SpecQM == Init /\ [][NextQM]_vars


\* ------------------------------- get_estimated_wait_time on its inputs
\* The queue of the deployed manager, QueueManager(max_queue_size=20, ...),
\* holding any number of waiting requests up to its capacity.
InitWait ==
    /\ \E len \in 0..WaitQueueSize :
          qm = [QM0 EXCEPT !.queue = [k \in 1..len |-> k]]
    /\ now = 1
    /\ nextId = 1
    /\ sub = [i \in Ids |-> "none"]
    /\ pqReady = 0
    /\ starting = {}
    /\ video = [i \in Ids |-> "none"]
    /\ calls = 0
    /\ wait = NoWait

\* A caller asks for the wait of a queued id or of one that is not queued.
AskWait ==
    /\ \E id \in 1..(WaitQueueSize + 1) :
          wait' = [id |-> id, out |-> get_estimated_wait_time(qm, id)]
    /\ UNCHANGED <<qm, now, nextId, appVars, calls>>

NextWait == AskWait

SpecWait == InitWait /\ [][NextWait]_vars


\* ------------------------------------------------ the handlers of app.py
\* generate_video, lines 106-108: the capacity check answers 429.
GenerateReject ==
    /\ get_queue_size(qm) >= max_queue_size
    /\ UNCHANGED <<wait, qm, now, nextId, appVars, calls>>

\* generate_video, lines 106-123: the check passes, the id is drawn, and the
\* coroutine awaits the reads of the two uploads.
GenerateCheck ==
    /\ get_queue_size(qm) < max_queue_size
    /\ nextId <= MaxJobs
    /\ sub' = [sub EXCEPT ![nextId] = "saving"]
    /\ nextId' = nextId + 1
    /\ UNCHANGED <<wait, qm, now, pqReady, starting, video, calls>>

\* generate_video, lines 125-141: add_to_queue, whose result is dropped, then
\* the broadcast is awaited.  An exception leaves the handler (HTTP 500).
GenerateAdd(i) ==
    /\ sub[i] = "saving"
    /\ qm' = add_to_queue(qm, i).s
    /\ sub' = [sub EXCEPT ![i] = IF add_to_queue(qm, i).out = "TypeError"
                                 THEN "failed" ELSE "added"]
    /\ UNCHANGED <<wait, now, nextId, pqReady, starting, video, calls>>

\* generate_video, lines 143-152: create_task(process_queue()) and the answer
\* ProcessingRequest(request_id, status="queued", ...).
GenerateRespond(i) ==
    /\ sub[i] = "added"
    /\ sub' = [sub EXCEPT ![i] = "answered"]
    /\ pqReady' = pqReady + 1
    /\ UNCHANGED <<wait, qm, now, nextId, starting, video, calls>>

\* process_queue, lines 274-293: the while test, get_next_item and
\* start_processing run with no await between them; the coroutine then awaits
\* its broadcasts holding the item.  An exception ends the coroutine.
ProcessQueueStep ==
    /\ pqReady > 0
    /\ pqReady' = pqReady - 1
    /\ IF can_start_processing(qm)
       THEN LET g == get_next_item(qm)
                st == start_processing(g.s, g.item)
            IN  IF g.out = "item"
                THEN /\ qm' = st.s
                     /\ starting' = starting \cup {g.item}
                ELSE /\ qm' = g.s
                     /\ starting' = starting
       ELSE UNCHANGED <<qm, starting>>
    /\ UNCHANGED <<wait, now, nextId, sub, video, calls>>

\* process_queue, line 296 and back to the while test of line 274.
ProcessQueueLaunch(i) ==
    /\ i \in starting
    /\ starting' = starting \ {i}
    /\ video' = [video EXCEPT ![i] = "created"]
    /\ pqReady' = pqReady + 1
    /\ UNCHANGED <<wait, qm, now, nextId, sub, calls>>

\* process_video, lines 302-325: the status update, then the executor is awaited.
VideoStart(i) ==
    /\ video[i] = "created"
    /\ qm' = update_request_status(qm, i, "processing", MsgInit).s
    /\ video' = [video EXCEPT ![i] = "working"]
    /\ UNCHANGED <<wait, now, nextId, sub, pqReady, starting, calls>>

\* What process_video does with the executor's outcome (lines 327-364): an
\* exception raised inside the try block, also by complete_request or
\* fail_request themselves, is answered by fail_request(id, "Error: ...").
Report(s, i, outcome, t) ==
    LET first == IF outcome = "success" THEN complete_request(s, i, ResultUrl, t)
                 ELSE IF outcome = "failure" THEN fail_request(s, i, MsgFailed, t)
                 ELSE fail_request(s, i, MsgError, t)
    IN  IF outcome # "exception" /\ first.out = "TypeError"
        THEN fail_request(first.s, i, MsgError, t)
        ELSE first

\* process_video, lines 327-371: the executor reports and the outcome is stored.
VideoFinish(i) ==
    /\ video[i] = "working"
    /\ \E outcome \in {"success", "failure", "exception"} :
          qm' = Report(qm, i, outcome, now).s
    /\ video' = [video EXCEPT ![i] = "reported"]
    /\ UNCHANGED <<wait, now, nextId, sub, pqReady, starting, calls>>

\* process_video, line 374: await process_queue().
VideoFinally(i) ==
    /\ video[i] = "reported"
    /\ video' = [video EXCEPT ![i] = "done"]
    /\ pqReady' = pqReady + 1
    /\ UNCHANGED <<wait, qm, now, nextId, sub, starting, calls>>

\* The ids a client can name: those answered or broadcast, and any other string.
Known == {i \in Ids : sub[i] \in {"added", "answered"}} \cup {UnknownId}

\* delete_result, lines 244-250: no process_queue follows; an exception is
\* answered with HTTP 500.
DeleteResult(id) ==
    /\ id \in Known
    /\ qm' = remove_request(qm, id).s
    /\ UNCHANGED <<wait, now, nextId, appVars, calls>>

Next ==
    \/ GenerateReject
    \/ GenerateCheck
    \/ \E i \in Ids : GenerateAdd(i)
    \/ \E i \in Ids : GenerateRespond(i)
    \/ ProcessQueueStep
    \/ \E i \in Ids : ProcessQueueLaunch(i)
    \/ \E i \in Ids : VideoStart(i)
    \/ \E i \in Ids : VideoFinish(i)
    \/ \E i \in Ids : VideoFinally(i)
    \/ \E id \in AnyId : DeleteResult(id)

Spec == Init /\ [][Next]_vars


\* The event loop runs every ready coroutine, and every started executor
\* reports (VideoFinish); clients are free to stop submitting and deleting.
Tasks ==
    \/ \E i \in Ids : GenerateAdd(i)
    \/ \E i \in Ids : GenerateRespond(i)
    \/ ProcessQueueStep
    \/ \E i \in Ids : ProcessQueueLaunch(i)
    \/ \E i \in Ids : VideoStart(i)
    \/ \E i \in Ids : VideoFinish(i)
    \/ \E i \in Ids : VideoFinally(i)

FairSpec == Spec /\ WF_vars(Tasks)

\* ============================================================= claims
Queued(s) == SeqToSet(s.queue)

\* C1: in every reachable state the Admission Queue holds at most
\* max_queue_size entries.
C1_QueueBounded == Len(qm.queue) <= max_queue_size

\* The queue is at capacity again after an earlier entry has left it.
C1_Witness == Len(qm.queue) = max_queue_size /\ nextId > max_queue_size + 1

\* C2: in every reachable state the running set (_processing) holds at most
\* max_concurrent identifiers.
C2_GateBounded == Cardinality(qm.processing) <= max_concurrent

\* The gate is full while a job waits, after a refused start_processing.
C2_Witness ==
    /\ Cardinality(qm.processing) = max_concurrent
    /\ Len(qm.queue) > 0
    /\ start_processing(qm, Head(qm.queue)).out = "False"


\* C3: submit on a full queue is refused and changes nothing; submit below
\* capacity creates a record with status queued and appends its id at the tail.
C3_SubmitContract ==
    [][\A i \in Ids : GenerateAdd(i) =>
          IF Len(qm.queue) >= max_queue_size
          THEN add_to_queue(qm, i).out = "False" /\ qm' = qm
          ELSE /\ add_to_queue(qm, i).out = "True"
               /\ qm'.queue = Append(qm.queue, i)
               /\ get_request_status(qm', i) = "queued"]_vars

\* C4: a submission that is answered with its id (HTTP 200, status "queued")
\* has a record that status(id) finds.
C4_AnsweredHasRecord ==
    [][\A i \in Ids : GenerateRespond(i) =>
          get_request_status(qm', i) \in Statuses]_vars

Forward(a, b) ==
    \/ a = b
    \/ <<a, b>> \in {<<"none", "queued">>, <<"queued", "processing">>,
                     <<"processing", "completed">>, <<"processing", "failed">>}

\* C5: a record's status changes only along queued -> running -> completed
\* or queued -> running -> failed, whatever operation is applied.
C5_StatusForward ==
    [][\A i \in Ids : Forward(qm.rec[i].status, qm'.rec[i].status)]_vars

\* C6: every admitted job eventually leaves the Admission Queue (promoted to
\* running, or removed by a request naming it), when every ready task runs
\* and every started executor reports.
C6_NoStarvation ==
    \A i \in Ids : (i \in Queued(qm) /\ InAll(qm, i)) ~> (i \notin Queued(qm))

\* C7: removing a running job while jobs wait promotes the head of the queue
\* with no further submission or executor outcome: the removal frees the slot
\* and leaves a scheduling pass pending that can pop the head.
C7_RemoveRunningPromotes ==
    [][\A id \in Ids :
          (DeleteResult(id) /\ id \in qm.processing /\ qm.queue # <<>>) =>
             /\ id \notin qm'.processing
             /\ \/ Head(qm.queue) \in qm'.processing
                \/ /\ pqReady' > 0 \/ starting' # {}
                   /\ get_next_item(qm').out = "item"]_vars

\* C8: remove(id) never raises and returns a boolean, for every id a caller
\* can name and in every reachable state.
C8_RemoveReturnsBool ==
    \A id \in Known : remove_request(qm, id).out \in {"True", "False"}

Present(s, id) ==
    \/ id \in Queued(s)
    \/ id \in s.processing
    \/ id \in SeqToSet(s.completed)
    \/ InAll(s, id)

Content(s) == <<s.queue, s.processing, s.completed, s.all_requests, s.rec>>

\* C9: remove(id) of a queued, running or terminal job reports true and leaves
\* the id absent from registry, queue and gate; remove of an unknown id
\* reports false and changes nothing.
C9_RemoveDeletes ==
    [][\A id \in AnyId : DeleteResult(id) =>
          IF Present(qm, id)
          THEN /\ remove_request(qm, id).out = "True"
               /\ get_request_status(qm', id) = "None"
               /\ id \notin Queued(qm')
               /\ id \notin qm'.processing
          ELSE /\ remove_request(qm, id).out = "False"
               /\ Content(qm') = Content(qm)]_vars

\* Removing a queued job: the queue is one shorter, the jobs behind it move up
\* by one, the jobs ahead keep their position, the gate is untouched.
RemoveQueuedShifts ==
    \A id \in Ids : (DeleteResult(id) /\ id \in Queued(qm)) =>
        /\ Len(qm'.queue) = Len(qm.queue) - 1
        /\ \A j \in Queued(qm) \ {id} :
              get_queue_position(qm', j) =
                 IF get_queue_position(qm, j) > get_queue_position(qm, id)
                 THEN get_queue_position(qm, j) - 1
                 ELSE get_queue_position(qm, j)
        /\ qm'.processing = qm.processing

\* A later submission below capacity goes to the tail.
SubmitAppends ==
    \A i \in Ids : (GenerateAdd(i) /\ Len(qm.queue) < max_queue_size) =>
        qm'.queue = Append(qm.queue, i)

\* A later scheduling pass that finds a free slot and a waiting job promotes
\* the head.
PromotePopsHead ==
    (ProcessQueueStep /\ can_start_processing(qm)) =>
        /\ qm'.queue = Tail(qm.queue)
        /\ Head(qm.queue) \in qm'.processing

\* C10: removing a queued job shortens the queue by one and shifts the jobs
\* behind it, and the queue keeps working as a FIFO queue for later
\* submissions and promotions.
C10_RemoveQueuedKeepsFifo ==
    [][RemoveQueuedShifts /\ SubmitAppends /\ PromotePopsHead]_vars

\* The part of C10 about the removal step alone.
C10_RemoveStepShifts == [][RemoveQueuedShifts]_vars


\* C11: two jobs that are both queued stand in the order of their submission:
\* the one submitted first has the smaller position.  Under direct calls the
\* ids are drawn in the order of the add_to_queue calls.
C11_FifoPositions ==
    \A a, b \in Queued(qm) :
        a < b => get_queue_position(qm, a) < get_queue_position(qm, b)

\* Two jobs wait in order after an earlier entry has left the queue.
C11_Witness ==
    /\ Len(qm.queue) = 2
    /\ 1 \notin Queued(qm)
    /\ get_queue_position(qm, qm.queue[1]) = 1
    /\ get_queue_position(qm, qm.queue[2]) = 2

\* Every step keeps the relative order of the jobs that stay queued, and a
\* job that enters the queue stands behind all of them.
OrderKept ==
    /\ \A a, b \in Queued(qm) \cap Queued(qm') :
          get_queue_position(qm, a) < get_queue_position(qm, b)
             => get_queue_position(qm', a) < get_queue_position(qm', b)
    /\ \A a \in Queued(qm) \cap Queued(qm'), b \in Queued(qm') \ Queued(qm) :
          get_queue_position(qm', a) < get_queue_position(qm', b)

\* The step form of C11 for the handlers of app.py, where the order of
\* admission is the order of the add_to_queue calls, not of the ids.
C11_OrderKept == [][OrderKept]_vars

\* A step that puts b into the gate takes it from the head of the queue:
\* every job still queued stood behind b.
PromotesHead ==
    \A b \in Ids : (b \notin qm.processing /\ b \in qm'.processing) =>
        /\ qm.queue # <<>>
        /\ Head(qm.queue) = b
        /\ \A a \in Queued(qm') :
              /\ a \in Queued(qm)
              /\ get_queue_position(qm, b) < get_queue_position(qm, a)

\* C12: the queue keeps the order of admission and only its head is promoted,
\* so no job is promoted while a job admitted before it is still queued,
\* under every interleaving of submissions and scheduling passes.
C12_FifoPromotion == [][OrderKept /\ PromotesHead]_vars

\* A scheduling pass has just promoted a job while another one waits.
C12_Witness ==
    /\ \E b \in starting : b \in qm.processing
    /\ qm.queue # <<>>
    /\ ~qm.queueIsList


\* The scenario's configuration, and its operations: submissions and the
\* executor's outcomes only, so remove_request has never been called.
ScenarioConfig == max_queue_size = 2 /\ max_concurrent = 1
NoRemoval == ~qm.queueIsList

\* J1 and J2 have been submitted and answered, J1 has not finished, and the
\* next submission is the third.
ThirdArrives ==
    /\ ScenarioConfig /\ NoRemoval
    /\ sub[1] = "answered" /\ sub[2] = "answered" /\ nextId = 3
    /\ qm.rec[1].status \in {"queued", "processing"}

\* J1 runs and has no position, J2 waits at position 1 (J3 was refused).
ScenarioPositions ==
    ScenarioConfig =>
       /\ 1 \in qm.processing => get_queue_position(qm, 1) = 0
       /\ (1 \in qm.processing /\ 2 \in Queued(qm) /\ 3 \notin Queued(qm))
             => get_queue_position(qm, 2) = 1
       /\ 2 \in qm.processing => qm.processing = {2}

\* Once J1 runs and J2 waits, J1's outcome leads to J2 running alone.
ScenarioPromotes ==
    (ScenarioConfig /\ NoRemoval /\ 1 \in qm.processing /\ 2 \in Queued(qm))
        ~> (qm.processing = {2} \/ ~NoRemoval)

\* C13: with max_queue_size = 2 and max_concurrent = 1, after J1 and J2 the
\* third submission is refused; J1 is promoted and has no position; J2 has
\* position 1; J1's completion promotes J2, which is then alone in the gate.
C13_Scenario ==
    /\ [][ThirdArrives => ~GenerateCheck]_vars
    /\ []ScenarioPositions
    /\ ScenarioPromotes

\* C13 as amended: the third submission is refused when it finds J1 and J2
\* both still queued, and passes the check only once one of them has left
\* the queue; the rest as in C13.
C13_ScenarioAmended ==
    /\ [][(ThirdArrives /\ {1, 2} \subseteq Queued(qm)) => ~GenerateCheck]_vars
    /\ []ScenarioPositions
    /\ ScenarioPromotes

\* J1 has completed and J2 runs alone; no third job was ever let in.
C13_Witness ==
    /\ ScenarioConfig /\ NoRemoval
    /\ qm.rec[1].status = "completed"
    /\ qm.processing = {2}
    /\ nextId = 3


\* C14: once a scheduling pass has run to its end, a further pass with nothing
\* in between promotes no job and leaves registry, queue and gate as they are,
\* from every state the manager can be in.
C14_PassIdempotent ==
    LET p == process_queue(qm)
    IN  /\ process_queue(p.s).s = p.s
        /\ process_queue(p.s).s.processing = p.s.processing

\* A pass promotes a job and leaves another one waiting.
C14_Witness ==
    /\ process_queue(qm).s.processing # qm.processing
    /\ process_queue(qm).s.queue # <<>>

\* C15: when the executor of a promoted job reports success with a result
\* reference, the job is in neither queue nor gate and the registry holds its
\* record with status completed and that reference.
C15_RoundTrip ==
    [][\A i \in Ids :
          (/\ VideoFinish(i)
           /\ i \in qm.processing
           /\ qm' = Report(qm, i, "success", now).s) =>
             /\ i \notin Queued(qm')
             /\ i \notin qm'.processing
             /\ get_request_status(qm', i) = "completed"
             /\ qm'.rec[i].result_url = ResultUrl]_vars

\* A job went through submit, promotion and completion.
C15_Witness ==
    \E i \in Ids :
        /\ sub[i] = "answered"
        /\ video[i] \in {"reported", "done"}
        /\ get_request_status(qm, i) = "completed"
        /\ qm.rec[i].result_url = ResultUrl


\* The ids status(id) finds.
Registry(s) == {i \in Ids : InAll(s, i)}

\* The terminal records of the registry that carry a finish time before
\* t - retention.
Expired(s, retention, t) ==
    {i \in Registry(s) : /\ s.rec[i].status \in {"completed", "failed"}
                         /\ FinishedAt(s.rec[i]) # 0
                         /\ FinishedAt(s.rec[i]) < t - retention}

\* C16: cleanup(retention) removes from the registry exactly the completed or
\* failed records that finished before now - retention, and leaves every
\* other record, the queue and the gate as they are, without raising.
C16_CleanupExact ==
    \A retention \in 0..1 :
        LET r == cleanup_old_requests(qm, retention, now)
        IN  /\ r.out = "None"
            /\ Registry(r.s) = Registry(qm) \ Expired(qm, retention, now)
            /\ r.s.rec = qm.rec
            /\ r.s.queue = qm.queue
            /\ r.s.processing = qm.processing


\* The positions in one state: a queued id has the index at which it stands;
\* a running, terminal or never submitted id has none (0); the head has 1 and
\* the queued ids have exactly the positions 1..len(queue).
PositionIsIndex ==
    /\ \A id \in Queued(qm) :
          /\ get_queue_position(qm, id) \in 1..Len(qm.queue)
          /\ qm.queue[get_queue_position(qm, id)] = id
    /\ \A id \in AnyId :
          (\/ id \in qm.processing
           \/ id \in SeqToSet(qm.completed)
           \/ id = UnknownId
           \/ id >= nextId) => get_queue_position(qm, id) = 0
    /\ \A id \in Ids :
          qm.rec[id].status \in {"processing", "completed", "failed", "none"}
             => get_queue_position(qm, id) = 0
    /\ qm.queue # <<>> => get_queue_position(qm, Head(qm.queue)) = 1
    /\ {get_queue_position(qm, id) : id \in Queued(qm)} = 1..Len(qm.queue)

\* C17: position(id) is the 1-based index of id in the queue when id is
\* queued and is absent for every running, terminal, removed or unknown id;
\* the head has position 1 and the positions are exactly 1..len(queue).
C17_Position ==
    /\ []PositionIsIndex
    /\ [][\A id \in AnyId : DeleteResult(id) => get_queue_position(qm', id) = 0]_vars

\* Two jobs wait at positions 1 and 2 while a third one runs.
C17_Witness ==
    /\ Len(qm.queue) = 2
    /\ qm.processing # {}
    /\ get_queue_position(qm, qm.queue[2]) = 2


\* The estimate the claim gives for a position: S = position x 210 seconds,
\* "S seconds" below 60, whole minutes below 3600, hours and the remaining
\* minutes from 3600 on.
ExpectedWait(position) ==
    LET S == position * 210
    IN  IF S < 60 THEN WaitStr("seconds", S, 0)
        ELSE IF S < 3600 THEN WaitStr("minutes", S \div 60, 0)
        ELSE WaitStr("h m", S \div 3600, (S - 3600 * (S \div 3600)) \div 60)

\* C18: estimate_wait(id) is absent exactly when position(id) is absent, and
\* otherwise is the claim's bucket of position x 210 seconds, for every
\* position of the queue.
C18_EstimateWait ==
    wait.id # 0 =>
        LET position == get_queue_position(qm, wait.id)
        IN  /\ (wait.out = WaitNone) <=> (position = 0)
            /\ position # 0 => wait.out = ExpectedWait(position)

\* Position 18 is answered "1h 3m"; position 17 is still in whole minutes.
C18_Witness ==
    /\ wait.id = 18
    /\ wait.out = WaitStr("h m", 1, 3)
    /\ get_estimated_wait_time(qm, 17) = WaitStr("minutes", 59, 0)


\* C19: in every reachable state an id is in the gate (_processing) if and
\* only if the registry holds its record with status "processing".
C19_GateIffRunning ==
    \A i \in Ids :
        i \in qm.processing <=> (InAll(qm, i) /\ qm.rec[i].status = "processing")


\* A registered job with status "queued" that is in neither queue nor gate.
Limbo(s, i) ==
    /\ InAll(s, i)
    /\ s.rec[i].status = "queued"
    /\ i \notin Queued(s)
    /\ i \notin s.processing

\* A step that takes a job out of the queue, other than its removal on
\* request, puts it into the gate and sets its status in the same step.
PromotionOneStep ==
    \A i \in Ids :
        (i \in Queued(qm) /\ i \notin Queued(qm') /\ ~DeleteResult(i)) =>
            /\ i \in qm'.processing
            /\ qm'.rec[i].status = "processing"

\* C20: promotion is one step for every other operation: a popped job is in
\* the gate with status "processing" at once, and no operation finds a job
\* with status "queued" that is in neither the queue nor the gate.
C20_PromotionAtomic ==
    [][PromotionOneStep /\ \A i \in Ids : ~Limbo(qm', i)]_vars

\* The part of C20 about the promotion step alone.
C20_PromotionOneStep == [][PromotionOneStep]_vars


\* A step puts a job into the gate only if the job was never promoted before.
PromotedOnce ==
    \A i \in Ids : (i \notin qm.processing /\ i \in qm'.processing) =>
        /\ qm.rec[i].status = "queued"
        /\ video[i] = "none"
        /\ i \notin starting

\* A scheduling pass goes on to start the executor of a job only if
\* start_processing has just put that job into the gate.
SignalOnlyGranted ==
    ProcessQueueStep =>
        \A i \in starting' \ starting :
            /\ start_processing(get_next_item(qm).s, i).out = "True"
            /\ i \in qm'.processing
            /\ i \notin qm.processing

\* The executor of a job is created once.
LaunchedOnce == \A i \in Ids : ProcessQueueLaunch(i) => video[i] = "none"

\* C21: every admitted job is promoted at most once and its executor is
\* started only after start_processing granted it a slot, under every
\* interleaving of the scheduling passes started by submissions and by
\* finished jobs.
C21_ExactlyOnceSlot == [][PromotedOnce /\ SignalOnlyGranted /\ LaunchedOnce]_vars

\* An executor has been created while two more scheduling passes are pending.
C21_Witness ==
    /\ \E i \in Ids : video[i] = "created" /\ i \in qm.processing
    /\ pqReady >= 2


\* No handler is between two of its steps and no scheduling pass is pending
\* or holds a job (a started executor may still be at work).
Quiescent ==
    /\ pqReady = 0
    /\ starting = {}
    /\ \A i \in Ids : sub[i] \notin {"saving", "added"}
    /\ \A i \in Ids : video[i] \notin {"created", "reported"}

\* C22: a scheduling pass follows every submission, completion, failure and
\* removal, so when nothing is in progress or pending the gate has no free
\* slot while a job waits in the queue.
C22_NoIdleSlot ==
    Quiescent => ~(Cardinality(qm.processing) < max_concurrent /\ qm.queue # <<>>)


\* C23: in every reachable state an id stands at most once in the queue, and
\* every id in the queue has a registry record with status "queued".
C23_QueueWellFormed ==
    /\ \A k, m \in 1..Len(qm.queue) : qm.queue[k] = qm.queue[m] => k = m
    /\ \A i \in Queued(qm) :
          /\ get_request_status(qm, i) = "queued"
          /\ qm.rec[i].status = "queued"


\* The job is not running: unknown, removed from the gate, or its record has
\* a status other than "processing" (queued or terminal).
NotRunning(s, id) ==
    \/ id = UnknownId
    \/ id \notin s.processing
    \/ s.rec[id].status # "processing"

\* C24: complete and fail applied to a job that is not running change
\* nothing: neither the record, nor the queue, nor the gate; a second
\* terminal callback cannot turn a completed job into a failed one.
C24_TerminalOnlyFromRunning ==
    \A id \in AnyId : NotRunning(qm, id) =>
        /\ complete_request(qm, id, ResultUrl, now) = [s |-> qm, out |-> "None"]
        /\ fail_request(qm, id, MsgFailed, now) = [s |-> qm, out |-> "None"]

\* A completed job, for which fail is a no-op, next to a job that is not
\* running yet or any more.
C24_Witness ==
    /\ \E i \in Ids : /\ qm.rec[i].status = "completed"
                      /\ fail_request(qm, i, MsgFailed, now).s = qm
    /\ \E j \in Ids : qm.rec[j].status \in {"queued", "failed"}


\* C25: update_request_status on a job that is not running (queued, terminal,
\* removed or unknown) is a no-op: it changes neither status nor message.
C25_UpdateOnlyWhileRunning ==
    \A id \in AnyId, st \in Statuses : NotRunning(qm, id) =>
        update_request_status(qm, id, st, MsgInit).s = qm

\* The call app.py makes (process_video, line 304) changes nothing when the
\* job has left the gate before its executor starts.
C25_LateCallbackDiscarded ==
    [][\A i \in Ids : (VideoStart(i) /\ NotRunning(qm, i)) => qm' = qm]_vars


\* A record has a result_url only when completed and an error only when failed.
OutcomeFields ==
    \A i \in Ids :
        /\ qm.rec[i].result_url # "absent" => qm.rec[i].status = "completed"
        /\ qm.rec[i].error # "absent" => qm.rec[i].status = "failed"

\* The step in which the executor of job i reports a failure or raises.
FailureOf(i) ==
    /\ VideoFinish(i)
    /\ \E outcome \in {"failure", "exception"} : qm' = Report(qm, i, outcome, now).s
    /\ qm' # Report(qm, i, "success", now).s

\* A failure touches the failed job's record only: the other records and the
\* queue stay as they are, the slot is released, and a submission or a
\* promotion attempted next is answered as it would have been before.
FailureIsLocal ==
    \A i \in Ids : FailureOf(i) =>
        /\ \A j \in Ids \ {i} : qm'.rec[j] = qm.rec[j]
        /\ qm'.queue = qm.queue
        /\ i \notin qm'.processing
        /\ qm'.processing \subseteq qm.processing
        /\ \A k \in Ids \ Issued : add_to_queue(qm', k).out = add_to_queue(qm, k).out
        /\ get_next_item(qm').out = get_next_item(qm).out

\* C26: a record has a result reference only if its status is completed and
\* an error only if it is failed; an executor failure is recorded on that
\* job's record alone and leaves the other records, the queue order and the
\* ability to submit and promote as they were.
C26_FailureContained == []OutcomeFields /\ [][FailureIsLocal]_vars

\* A job has failed with its error recorded and another job was promoted
\* into the slot it released.
C26_Witness ==
    \E i, j \in Ids :
        /\ qm.rec[i].status = "failed"
        /\ qm.rec[i].error = MsgFailed
        /\ qm.rec[i].result_url = "absent"
        /\ j # i
        /\ j \in qm.processing


Min(a, b) == IF a < b THEN a ELSE b

\* C27: a scheduling pass that starts with k free slots and n queued jobs
\* ends, without an executor having reported, with min(k, n) more jobs in the
\* gate, all of them running.
C27_PassPromotesMin ==
    LET p == process_queue(qm)
        k == max_concurrent - Cardinality(qm.processing)
        n == Len(qm.queue)
        promoted == p.s.processing \ qm.processing
    IN  /\ p.out = "None"
        /\ Cardinality(promoted) = Min(k, n)
        /\ \A i \in promoted : p.s.rec[i].status = "processing"
        /\ qm.processing \subseteq p.s.processing


\* In how many of queue, gate and terminal store the id is held.
Places(s, i) ==
    (IF i \in Queued(s) THEN 1 ELSE 0)
    + (IF i \in s.processing THEN 1 ELSE 0)
    + (IF i \in SeqToSet(s.completed) THEN 1 ELSE 0)

\* C28: every record of the registry is in exactly one of queue, gate and
\* terminal store, and the statistics add up:
\* total_requests = queued + processing + completed + failed.
C28_StatsAddUp ==
    /\ \A i \in Registry(qm) : Places(qm, i) = 1
    /\ LET st == get_queue_stats(qm)
       IN  st.total_requests = st.queued + st.processing + st.completed + st.failed


\* The executors that were started and have not reported their outcome.
ExecutorsAtWork == {i \in Ids : video[i] \in {"created", "working"}}

\* C29: at every moment at most max_concurrent started executors have not
\* yet reported, whatever submissions, outcomes and removals of running jobs
\* occur.
C29_ExecutorsBounded == Cardinality(ExecutorsAtWork) <= max_concurrent

\* A running job was removed on request while its executor is still at work
\* and another job waits.
C29_Witness ==
    \E i \in ExecutorsAtWork :
        /\ i \notin qm.processing
        /\ qm.queue # <<>>
        /\ Cardinality(qm.processing) < max_concurrent

====
